---- MODULE Spec2Model ----
(***************************************************************************)
(* A model of the FastAPI + OpenTelemetry + Azure Monitor demo service:    *)
(* the module-level startup of app/main.py (settings, setup_telemetry,     *)
(* tracer/meter/instruments), the process-global telemetry registry that   *)
(* app/telemetry.py writes, and the HTTP handlers of app/main.py.          *)
(*                                                                         *)
(* Units: durations of /demo/slow are in milliseconds, the value returned  *)
(* as duration_seconds is in hundredths of a second.  The wall clock       *)
(* (time.time()) is an abstract reading in 0..MaxClock.                    *)
(***************************************************************************)
EXTENDS Integers, Sequences, FiniteSets, TLC

VARIABLES
    pc,         \* position of the module-level startup code of app/main.py
    env,        \* the process environment the settings are read from
    settings,   \* app.config.settings
    otel,       \* process-global state written by setup_telemetry
    tracer,     \* main.tracer
    meter,      \* main.meter
    instruments, \* the four instruments created at startup
    served,     \* number of requests served so far
    clock,      \* the wall clock, as time.time() reads it
    req,        \* the last request
    given,      \* what the environment fed its handling
    resp,       \* the response the client got for it
    log_calls,  \* the logger calls made while serving it
    outbound,   \* the outbound requests.get attempts made while serving it
    metrics,    \* what the SDK instruments have recorded
    health_ts,  \* the timestamps of the last two /health responses
    tasks,      \* the requests accepted and not yet answered, oldest first
    thread,     \* who runs on the event loop's thread: the loop or a handler
    export      \* the batch processors' queue and the export worker

startup_vars == <<pc, env, settings, otel, tracer, meter, instruments>>
request_vars == <<served, req, given, resp, log_calls, outbound, metrics, health_ts>>
loop_vars == <<tasks, thread, export>>
vars == <<pc, env, settings, otel, tracer, meter, instruments,
          served, clock, req, given, resp, log_calls, outbound, metrics, health_ts,
          tasks, thread, export>>

----------------------------------------------------------------------------
(* Bounds of the model *)

\* number of requests served in one run
MaxRequests == 2
\* largest reading of the wall clock
MaxClock == 2
\* largest excess of a sleep over the time asked for, in milliseconds
MaxOverrun == 1

----------------------------------------------------------------------------
(* Settings: app/config.py *)

\* values of APPLICATIONINSIGHTS_CONNECTION_STRING in the environment:
\* unset, set to the empty string, a well-formed string, a malformed one
ConnUnset == "<unset>"
ConnectionStrings == {ConnUnset, "", "InstrumentationKey=valid", "malformed"}

\* Settings(): the field defaults to None when the variable is unset
Settings(environment) ==
    [applicationinsights_connection_string |->
         IF environment = ConnUnset THEN "None" ELSE environment,
     app_name |-> "azure-monitor-demo",
     app_version |-> "1.0.0",
     environment |-> "development",
     otel_service_name |-> "fastapi-otel-azure"]

NoSettings == Settings(ConnUnset)

\* Python truthiness of the connection string: None and "" are falsy
Truthy(connection_string) ==
    connection_string # "None" /\ connection_string # ""

----------------------------------------------------------------------------
(* The process-global telemetry registry and the logging configuration *)

Provider(cls, by, resource) == [cls |-> cls, by |-> by, resource |-> resource]

\* an empty global provider slot (the API then hands out no-op proxies)
NoProvider == Provider("None", "nobody", "none")

\* the providers setup_telemetry constructs, all on the one Resource
AppTracerProvider == Provider("TracerProvider", "setup_telemetry", "resource")
AppMeterProvider == Provider("MeterProvider", "setup_telemetry", "resource")
AppLoggerProvider == Provider("LoggerProvider", "setup_telemetry", "resource")

\* the providers configure_azure_monitor constructs for itself
AzureProvider(cls) == Provider(cls, "configure_azure_monitor", "azure_resource")

\* the registry before setup_telemetry has run, with the root logger's
\* handlers as the host (the server or the test runner) left them
FreshRegistry(host_handlers) ==
    [tracer_provider |-> NoProvider,
     meter_provider |-> NoProvider,
     logger_provider |-> NoProvider,
     constructed |-> {},
     root_handlers |-> host_handlers,
     app_main_handlers |-> {},
     root_level |-> "WARNING",
     instrumented |-> {},
     warnings |-> 0,
     override_warnings |-> 0,
     live_metrics |-> FALSE,
     info_logs |-> 0]

\* trace.set_tracer_provider / metrics.set_meter_provider / set_logger_provider:
\* each global slot is set once; a later call logs "Overriding of current
\* ...Provider is not allowed" and leaves the slot as it is
SetOnce(g, slot, provider) ==
    IF g[slot] = NoProvider
    THEN [g EXCEPT ![slot] = provider]
    ELSE [g EXCEPT !.override_warnings = @ + 1]

set_tracer_provider(g, provider) == SetOnce(g, "tracer_provider", provider)
set_meter_provider(g, provider) == SetOnce(g, "meter_provider", provider)
set_logger_provider(g, provider) == SetOnce(g, "logger_provider", provider)

Construct(g, classes) == [g EXCEPT !.constructed = @ \cup classes]

\* logging.warning(...): the module-level function first calls basicConfig()
\* when the root logger has no handler, which installs a StreamHandler
logging_warning(g) ==
    [g EXCEPT !.root_handlers = IF @ = {} THEN {"StreamHandler"} ELSE @,
              !.warnings = @ + 1]

\* configure_azure_monitor(connection_string, enable_live_metrics=True,
\* logger_name="app.main"): builds its own three pipelines and registers
\* them (tracing, logging, metrics), and hangs its handler on "app.main"
configure_azure_monitor(g) ==
    LET g1 == [g EXCEPT !.live_metrics = TRUE]
        g2 == set_tracer_provider(g1, AzureProvider("TracerProvider"))
        g3 == set_logger_provider(g2, AzureProvider("LoggerProvider"))
        g4 == [g3 EXCEPT !.app_main_handlers = @ \cup {"AzureLoggingHandler"}]
    IN  set_meter_provider(g4, AzureProvider("MeterProvider"))

\* the exporters' from_connection_string rejects a malformed string
ValidConnectionString(connection_string) ==
    connection_string = "InstrumentationKey=valid"

\* setup_telemetry lines 41-49: the Resource, the TracerProvider and its
\* registration
RegisterTracerProvider(g) ==
    set_tracer_provider(Construct(g, {"Resource", "TracerProvider"}),
                        AppTracerProvider)

\* setup_telemetry lines 41-93, with a connection string the exporters accept
WirePipelines(g) ==
    LET t1 == RegisterTracerProvider(g)
        \* lines 51-55
        t2 == Construct(t1, {"AzureMonitorTraceExporter", "BatchSpanProcessor"})
        \* lines 58-62
        m1 == set_meter_provider(
                  Construct(t2, {"AzureMonitorMetricExporter",
                                 "PeriodicExportingMetricReader",
                                 "MeterProvider"}),
                  AppMeterProvider)
        \* lines 65-69
        a1 == configure_azure_monitor(m1)
        \* lines 72-76
        l1 == set_logger_provider(Construct(a1, {"LoggerProvider"}),
                                  AppLoggerProvider)
        l2 == Construct(l1, {"AzureMonitorLogExporter", "BatchLogRecordProcessor"})
        \* lines 79-81
        h1 == [Construct(l2, {"LoggingHandler"}) EXCEPT
                   !.root_handlers = @ \cup {"LoggingHandler"},
                   !.root_level = "INFO"]
        \* lines 85-93
    IN  [h1 EXCEPT !.instrumented = @ \cup {"fastapi", "requests", "logging"},
                   !.info_logs = @ + 1]

\* setup_telemetry without the check of lines 32-38: it goes on to the
\* exporters, which reject a missing connection string
setup_telemetry_unguarded(g, s) ==
    IF ~ValidConnectionString(s.applicationinsights_connection_string)
    THEN [registry |-> RegisterTracerProvider(g), raised |-> TRUE]
    ELSE [registry |-> WirePipelines(g), raised |-> FALSE]

\* setup_telemetry with the check of lines 32-38 placed after line 49
setup_telemetry_late_guard(g, s) ==
    IF ~Truthy(s.applicationinsights_connection_string)
    THEN [registry |-> logging_warning(RegisterTracerProvider(g)), raised |-> FALSE]
    ELSE IF ~ValidConnectionString(s.applicationinsights_connection_string)
    THEN [registry |-> RegisterTracerProvider(g), raised |-> TRUE]
    ELSE [registry |-> WirePipelines(g), raised |-> FALSE]

\* setup_telemetry(app): the registry it leaves, and whether it raised (the
\* exporter of line 51 raises on a connection string it cannot parse)
setup_telemetry(g, s) ==
    IF ~Truthy(s.applicationinsights_connection_string)
    THEN [registry |-> logging_warning(g), raised |-> FALSE]
    ELSE IF ~ValidConnectionString(s.applicationinsights_connection_string)
    THEN [registry |-> RegisterTracerProvider(g), raised |-> TRUE]
    ELSE [registry |-> WirePipelines(g), raised |-> FALSE]

----------------------------------------------------------------------------
(* Tracer, meter and instruments: app/main.py lines 21-48 *)

\* trace.get_tracer(__name__): a tracer of the global provider, or the no-op
\* proxy when none is registered
get_tracer(g) == [recording |-> g.tracer_provider # NoProvider]

\* metrics.get_meter(__name__)
get_meter(g) == [recording |-> g.meter_provider # NoProvider]

InstrumentNames ==
    {"demo.requests.total", "demo.processing.duration",
     "demo.active_users", "demo.errors.total"}

\* meter.create_counter / create_histogram / create_up_down_counter
create_instruments(m) == [n \in InstrumentNames |-> [recording |-> m.recording]]

NoInstruments == [n \in InstrumentNames |-> [recording |-> FALSE]]

----------------------------------------------------------------------------
(* Requests, responses and what a handler leaves behind *)

\* a query parameter the client did not send
Absent == "<absent>"

\* a request: its path, method and error_type query parameter
Request(path, query) == [path |-> path, method |-> "GET", error_type |-> query]

NoRequest == [path |-> "", method |-> "", error_type |-> Absent]

\* no outbound call was made
NoDownstream ==
    [exc |-> "", status_code |-> 0, decodable |-> FALSE, payload |-> ""]

\* what the environment fed the handling of a request: the exception class of
\* an unexpected fault (or ""), the outcome of the outbound call, and the
\* draw of random.uniform (or -1)
Given(fault, downstream, draw) ==
    [fault |-> fault, downstream |-> downstream, draw |-> draw]

NoInputs == Given("", NoDownstream, -1)

\* the fields of the JSON bodies the handlers return; keys holds the
\* top-level keys of the body that was sent
EmptyBody ==
    [keys |-> {},
     message |-> "",
     endpoints |-> {},
     status |-> "",
     timestamp |-> -1,
     error_logged |-> FALSE,
     detail |-> <<>>,
     processing_time_ms |-> -1,
     active_users_change |-> 0,
     external_api |-> "",
     status_code |-> -1,
     data |-> "",
     duration_seconds |-> -1,
     telemetry_generated |-> <<>>,
     total_types |-> -1]

\* what the client receives; elapsed_ms is the time the call took, by a
\* stopwatch on the client's side
Response(status, content_type, body, elapsed_ms) ==
    [status |-> status, content_type |-> content_type, body |-> body,
     elapsed_ms |-> elapsed_ms]

NoResponse == Response(0, "", EmptyBody, 0)

NoMetrics ==
    [request_total |-> 0, error_total |-> 0, active_users |-> 0,
     histogram_last |-> -1, histogram_count |-> 0]

\* a logger call: its level and whether it carries exception information
LogCall(level, exc_info) == [level |-> level, exc_info |-> exc_info,
                             path |-> "", method |-> ""]

\* Counter.add / UpDownCounter.add: the proxy instrument of the no-op meter
\* drops the measurement
InstrumentAdd(instrument, total, amount) ==
    IF instrument.recording THEN total + amount ELSE total

\* error_counter.add(1, ...)
error_counter_add(m) ==
    [m EXCEPT !.error_total =
         InstrumentAdd(instruments["demo.errors.total"], @, 1)]

\* request_counter.add(1, ...)
request_counter_add(m) ==
    [m EXCEPT !.request_total =
         InstrumentAdd(instruments["demo.requests.total"], @, 1)]

\* active_users_gauge.add(change, ...)
active_users_gauge_add(m, change) ==
    [m EXCEPT !.active_users =
         InstrumentAdd(instruments["demo.active_users"], @, change)]

\* processing_time_histogram.record(value, ...), value in thousandths of a ms
processing_time_histogram_record(m, value) ==
    IF instruments["demo.processing.duration"].recording
    THEN [m EXCEPT !.histogram_last = value, !.histogram_count = @ + 1]
    ELSE m

\* an exception in flight
Exc(cls, status_code, detail) ==
    [cls |-> cls, status_code |-> status_code, detail |-> detail]

NoExc == Exc("", 0, <<>>)

HTTPException(status_code, detail) == Exc("HTTPException", status_code, detail)

\* how a handler ends: it returns a body or raises, having made these logger
\* calls and outbound attempts, left the instruments at m, and taken this long
Returned(body, logs, m, attempts, elapsed_ms) ==
    [raised |-> FALSE, exc |-> NoExc, body |-> body, logs |-> logs,
     metrics |-> m, outbound |-> attempts, elapsed_ms |-> elapsed_ms]

Raised(exc, logs, m, attempts, elapsed_ms) ==
    [raised |-> TRUE, exc |-> exc, body |-> EmptyBody, logs |-> logs,
     metrics |-> m, outbound |-> attempts, elapsed_ms |-> elapsed_ms]

----------------------------------------------------------------------------
(* The handlers of app/main.py.  Each takes the instruments' state m and   *)
(* the handler's inputs (query, random draws, the outcome of the outbound  *)
(* call, the clock) and gives how the handler ends.                        *)

\* GET /
root(m) ==
    Returned([EmptyBody EXCEPT
                  !.keys = {"message", "endpoints"},
                  !.message = "Hello from FastAPI with OpenTelemetry & Azure Monitor!",
                  !.endpoints = {"health", "info_log", "warning_log", "error_log",
                                 "exception", "metrics", "custom_trace",
                                 "dependency", "slow_operation", "all_telemetry"}],
             <<LogCall("INFO", FALSE)>>, m, 0, 0)

\* health with a timestamp taken once, when the module was loaded
health_stale(m, now) ==
    Returned([EmptyBody EXCEPT !.keys = {"status", "timestamp"},
                               !.status = "healthy",
                               !.timestamp = 0],
             <<LogCall("DEBUG", FALSE)>>, m, 0, 0)

\* GET /health; now is what time.time() returns
health(m, now) ==
    Returned([EmptyBody EXCEPT !.keys = {"status", "timestamp"},
                               !.status = "healthy",
                               !.timestamp = now],
             <<LogCall("DEBUG", FALSE)>>, m, 0, 0)

\* GET /demo/info
demo_info_log(m) ==
    Returned([EmptyBody EXCEPT !.keys = {"message"},
                               !.message = "INFO log sent to Azure Monitor"],
             <<LogCall("INFO", FALSE)>>, m, 0, 0)

\* GET /demo/warning
demo_warning_log(m) ==
    Returned([EmptyBody EXCEPT !.keys = {"message"},
                               !.message = "WARNING log sent to Azure Monitor"],
             <<LogCall("WARNING", FALSE)>>, m, 0, 0)

\* GET /demo/error
demo_error_log(m) ==
    Returned([EmptyBody EXCEPT !.keys = {"message", "error_logged"},
                               !.message = "ERROR log sent to Azure Monitor",
                               !.error_logged = TRUE],
             <<LogCall("ERROR", FALSE)>>, error_counter_add(m), 0, 0)

\* Query(default="runtime"): the value the handler sees
ErrorTypeParam(query) == IF query = Absent THEN "runtime" ELSE query

\* the exception the try block of demo_exception raises
SyntheticFault(error_type) ==
    IF error_type = "runtime"
    THEN Exc("RuntimeError", 0, <<"This is a simulated runtime error for testing">>)
    ELSE IF error_type = "http"
    THEN HTTPException(503, <<"Service temporarily unavailable">>)
    ELSE IF error_type = "zero_division"
    THEN Exc("ZeroDivisionError", 0, <<"division by zero">>)
    ELSE Exc("ValueError", 0, <<"Unknown error type: ", error_type>>)

\* demo_exception without the "except HTTPException: raise" clause: the
\* HTTPException is caught by "except Exception" like the others
demo_exception_no_reraise(m, query) ==
    LET error_type == ErrorTypeParam(query)
        e == SyntheticFault(error_type)
    IN  Raised(HTTPException(500, <<"Internal error: ">> \o e.detail),
               <<LogCall("ERROR", TRUE)>>, error_counter_add(m), 0, 0)

\* demo_exception with error_counter.add moved into the "except Exception"
\* block: the re-raised HTTPException is not counted
demo_exception_counts_in_except(m, query) ==
    LET error_type == ErrorTypeParam(query)
        e == SyntheticFault(error_type)
    IN  IF e.cls = "HTTPException"
        THEN Raised(e, <<>>, m, 0, 0)
        ELSE Raised(HTTPException(500, <<"Internal error: ">> \o e.detail),
                    <<LogCall("ERROR", TRUE)>>, error_counter_add(m), 0, 0)

\* demo_exception without its try/except: the synthetic fault leaves the
\* handler as it was raised
demo_exception_uncaught(m, query) ==
    Raised(SyntheticFault(ErrorTypeParam(query)), <<>>, error_counter_add(m), 0, 0)

\* GET /demo/exception
demo_exception(m, query) ==
    LET error_type == ErrorTypeParam(query)
        m1 == error_counter_add(m)
        e == SyntheticFault(error_type)
    IN  IF e.cls = "HTTPException"
        THEN Raised(e, <<>>, m1, 0, 0)
        ELSE Raised(HTTPException(500, <<"Internal error: ">> \o e.detail),
                    <<LogCall("ERROR", TRUE)>>, m1, 0, 0)

\* round(x, 2) of a value given in thousandths: the nearest hundredth, a tie
\* going to the even one
Round2(thousandths) ==
    LET q == thousandths \div 10
        r == thousandths % 10
    IN  IF r < 5 THEN q
        ELSE IF r > 5 THEN q + 1
        ELSE IF q % 2 = 0 THEN q ELSE q + 1

\* a sleep given milliseconds where time.sleep takes seconds
time_sleep_wrong_unit(ms, overrun) == (ms \div 1000) + overrun

\* time.sleep(ms): returns after at least ms, overrun being the excess
time_sleep(ms, overrun) == ms + overrun

\* demo_metrics that adjusts the gauge by a draw of its own, not by the one
\* it reports
demo_metrics_other_draw(m, processing_time, user_change) ==
    LET m1 == request_counter_add(m)
        m2 == processing_time_histogram_record(m1, processing_time)
        m3 == active_users_gauge_add(m2, 1)
    IN  Returned([EmptyBody EXCEPT
                      !.keys = {"message", "metrics"},
                      !.message = "Custom metrics sent to Azure Monitor",
                      !.processing_time_ms = Round2(processing_time),
                      !.active_users_change = user_change],
                 <<LogCall("INFO", FALSE)>>, m3, 0, 0)

\* GET /demo/metrics; processing_time is random.uniform(10, 500) in thousandths
\* of a millisecond, user_change is random.choice([-1, 1, 2])
demo_metrics(m, processing_time, user_change) ==
    LET m1 == request_counter_add(m)
        m2 == processing_time_histogram_record(m1, processing_time)
        m3 == active_users_gauge_add(m2, user_change)
    IN  Returned([EmptyBody EXCEPT
                      !.keys = {"message", "metrics"},
                      !.message = "Custom metrics sent to Azure Monitor",
                      !.processing_time_ms = Round2(processing_time),
                      !.active_users_change = user_change],
                 <<LogCall("INFO", FALSE)>>, m3, 0, 0)

\* GET /demo/trace: two blocking sleeps of 100 ms and 50 ms inside the spans
demo_custom_trace(m, overrun) ==
    Returned([EmptyBody EXCEPT
                  !.keys = {"message"},
                  !.message = "Custom trace with nested spans sent to Azure Monitor"],
             <<LogCall("INFO", FALSE)>>, m, 0,
             time_sleep(100, 0) + time_sleep(50, overrun))

\* what requests.get(url, timeout=5) can do: return a response whose body
\* decodes as JSON, return one whose body does not, or raise
Downstream ==
    {[exc |-> "", status_code |-> 200, decodable |-> TRUE, payload |-> "posts/1"],
     [exc |-> "", status_code |-> 500, decodable |-> FALSE, payload |-> ""],
     [exc |-> "ConnectionError", status_code |-> 0, decodable |-> FALSE, payload |-> ""],
     [exc |-> "Timeout", status_code |-> 0, decodable |-> FALSE, payload |-> ""]}

\* demo_dependency_tracking with a second attempt after a failed one, that
\* ends like the first
demo_dependency_tracking_retry(m, d) ==
    IF d.exc # ""
    THEN Raised(HTTPException(502, <<"External service error: ", d.exc>>),
                <<LogCall("ERROR", FALSE)>>, m, 2, 0)
    ELSE IF ~d.decodable
    THEN Raised(HTTPException(502, <<"External service error: ", "JSONDecodeError">>),
                <<LogCall("INFO", FALSE), LogCall("ERROR", FALSE)>>, m, 2, 0)
    ELSE Returned([EmptyBody EXCEPT
                       !.keys = {"message", "external_api", "status_code", "data"},
                       !.message = "Dependency tracking demonstrated",
                       !.external_api = "jsonplaceholder.typicode.com",
                       !.status_code = d.status_code,
                       !.data = d.payload],
                  <<LogCall("INFO", FALSE)>>, m, 1, 0)

\* GET /demo/dependency: one requests.get inside the try; response.json() is
\* inside it too
demo_dependency_tracking(m, d) ==
    IF d.exc # ""
    THEN Raised(HTTPException(502, <<"External service error: ", d.exc>>),
                <<LogCall("ERROR", FALSE)>>, m, 1, 0)
    ELSE IF ~d.decodable
    THEN Raised(HTTPException(502, <<"External service error: ", "JSONDecodeError">>),
                <<LogCall("INFO", FALSE), LogCall("ERROR", FALSE)>>, m, 1, 0)
    ELSE Returned([EmptyBody EXCEPT
                       !.keys = {"message", "external_api", "status_code", "data"},
                       !.message = "Dependency tracking demonstrated",
                       !.external_api = "jsonplaceholder.typicode.com",
                       !.status_code = d.status_code,
                       !.data = d.payload],
                  <<LogCall("INFO", FALSE)>>, m, 1, 0)

\* GET /demo/slow; duration is random.uniform(1, 3) in milliseconds, the
\* histogram gets duration * 1000 (a value in ms, here in thousandths of it)
demo_slow_operation(m, duration, overrun) ==
    LET slept == time_sleep(duration, overrun)
        m1 == processing_time_histogram_record(m, duration * 1000)
    IN  Returned([EmptyBody EXCEPT
                      !.keys = {"message", "duration_seconds", "note"},
                      !.message = "Slow operation completed",
                      !.duration_seconds = Round2(duration)],
                 <<LogCall("WARNING", FALSE), LogCall("INFO", FALSE)>>,
                 m1, 0, slept)

\* step 5 of /demo/all without its try/except: a failed call ends the handler
DependencyStepUncaught(d) ==
    IF d.exc # ""
    THEN [entry |-> "", logs |-> <<>>, escaped |-> TRUE]
    ELSE [entry |-> IF d.status_code = 200
                    THEN "v Dependency tracking (status: 200)"
                    ELSE "v Dependency tracking (status: 500)",
          logs |-> <<>>, escaped |-> FALSE]

\* step 5 of /demo/all: the outbound call inside its own try/except, which
\* lets no Exception escape the step
DependencyStep(d) ==
    IF d.exc # ""
    THEN [entry |-> "x Dependency tracking (failed)",
          logs |-> <<LogCall("ERROR", FALSE)>>, escaped |-> FALSE]
    ELSE [entry |-> IF d.status_code = 200
                    THEN "v Dependency tracking (status: 200)"
                    ELSE "v Dependency tracking (status: 500)",
          logs |-> <<>>, escaped |-> FALSE]

\* step 7 of /demo/all: raise ValueError inside try/except ValueError
CaughtExceptionStep ==
    [entry |-> "v Exception (caught and logged)",
     logs |-> <<LogCall("ERROR", TRUE)>>, escaped |-> FALSE]

\* GET /demo/all: the seven steps in order; an exception escaping a step
\* would end the handler there
demo_all_telemetry(m, d, overrun) ==
    LET m1 == request_counter_add(m)
        m2 == processing_time_histogram_record(m1, 250 * 1000)
        m3 == active_users_gauge_add(m2, 1)
        slept == time_sleep(100, overrun)
        dep == DependencyStep(d)
        m4 == error_counter_add(m3)
        caught == CaughtExceptionStep
        results == <<"v INFO log", "v WARNING log",
                     "v Custom metrics (counter, histogram, gauge)",
                     "v Custom nested trace", dep.entry, "v ERROR log",
                     caught.entry>>
        logs4 == <<LogCall("INFO", FALSE), LogCall("WARNING", FALSE)>>
        logs6 == logs4 \o dep.logs \o <<LogCall("ERROR", FALSE)>>
    IN  IF dep.escaped
        THEN Raised(Exc(d.exc, 0, <<>>), logs4, m3, 1, slept)
        ELSE IF caught.escaped
        THEN Raised(Exc("ValueError", 0, <<>>), logs6, m4, 1, slept)
        ELSE Returned([EmptyBody EXCEPT
                           !.keys = {"message", "telemetry_generated",
                                     "total_types", "note"},
                           !.message = "All telemetry types generated successfully!",
                           !.telemetry_generated = results,
                           !.total_types = Len(results)],
                      logs6 \o caught.logs \o <<LogCall("INFO", FALSE)>>,
                      m4, 1, slept)

\* the process-wide handler registered with @app.exception_handler(Exception):
\* one logger.exception call, and a plain dict as the return value
global_exception_handler(request, exc) ==
    [logs |-> <<[level |-> "ERROR", exc_info |-> TRUE,
                 path |-> request.path, method |-> request.method]>>,
     returned |-> [type |-> "dict",
                   keys |-> {"error", "detail", "path"},
                   detail |-> exc.detail]]

----------------------------------------------------------------------------
(* Startup: the module-level code of app/config.py and app/main.py *)

HostHandlers == {{}, {"HostHandler"}}

\* the batch processors before anything was recorded: nothing queued, the
\* export worker not inside an export call
NoExport == [queue |-> 0, in_flight |-> FALSE]

Init ==
    /\ pc = "start"
    /\ env \in [conn : ConnectionStrings, root_handlers : HostHandlers]
    /\ settings = NoSettings
    /\ otel = FreshRegistry(env.root_handlers)
    /\ tracer = [recording |-> FALSE]
    /\ meter = [recording |-> FALSE]
    /\ instruments = NoInstruments
    /\ served = 0
    /\ clock = 0
    /\ req = NoRequest
    /\ given = NoInputs
    /\ resp = NoResponse
    /\ log_calls = <<>>
    /\ outbound = 0
    /\ metrics = NoMetrics
    /\ health_ts = <<>>
    /\ tasks = <<>>
    /\ thread = "loop"
    /\ export = NoExport

\* app/config.py line 46: settings = Settings()
LoadSettings ==
    /\ pc = "start"
    /\ settings' = Settings(env.conn)
    /\ pc' = "settings_loaded"
    /\ UNCHANGED <<env, otel, tracer, meter, instruments, clock, request_vars, loop_vars>>

\* setup_telemetry called at startup and once more while serving
SetupTelemetryAgain ==
    /\ pc \in {"settings_loaded", "serving"}
    /\ otel.warnings + otel.info_logs < 2
    /\ LET r == setup_telemetry(otel, settings)
       IN  /\ otel' = r.registry
           /\ pc' = IF r.raised THEN "failed"
                    ELSE IF pc = "serving" THEN "serving" ELSE "telemetry_done"
    /\ UNCHANGED <<env, settings, tracer, meter, instruments, clock, request_vars,
                   loop_vars>>

\* app/main.py line 19: setup_telemetry(app); an exception ends the import
SetupTelemetry ==
    /\ pc = "settings_loaded"
    /\ LET r == setup_telemetry(otel, settings)
       IN  /\ otel' = r.registry
           /\ pc' = IF r.raised THEN "failed" ELSE "telemetry_done"
    /\ UNCHANGED <<env, settings, tracer, meter, instruments, clock, request_vars,
                   loop_vars>>

\* app/main.py lines 22-48
CreateInstruments ==
    /\ pc = "telemetry_done"
    /\ tracer' = get_tracer(otel)
    /\ meter' = get_meter(otel)
    /\ instruments' = create_instruments(get_meter(otel))
    /\ pc' = "serving"
    /\ UNCHANGED <<env, settings, otel, clock, request_vars, loop_vars>>

----------------------------------------------------------------------------
(* The framework: routing and the conversion of a handler's end into the   *)
(* response the client receives                                            *)

\* the paths registered with @app.get in app/main.py
Routes ==
    {"/", "/health", "/demo/info", "/demo/warning", "/demo/error",
     "/demo/exception", "/demo/metrics", "/demo/trace", "/demo/dependency",
     "/demo/slow", "/demo/all"}

\* the error paths the client scripts request, with the status each expects
HttpErrorPaths ==
    [p \in {"/demo/http-errors/400", "/demo/http-errors/401",
            "/demo/http-errors/403", "/demo/http-errors/404",
            "/demo/http-errors/429", "/demo/http-errors/500",
            "/demo/http-errors/503"} |->
        CASE p = "/demo/http-errors/400" -> 400
          [] p = "/demo/http-errors/401" -> 401
          [] p = "/demo/http-errors/403" -> 403
          [] p = "/demo/http-errors/404" -> 404
          [] p = "/demo/http-errors/429" -> 429
          [] p = "/demo/http-errors/500" -> 500
          [] p = "/demo/http-errors/503" -> 503]

\* a path no route matches: the router raises HTTPException(404)
NoRoute(m) == Raised(HTTPException(404, <<"Not Found">>), <<>>, m, 0, 0)

\* the response for a handler's end r: a returned dict is sent as JSON with
\* 200; an HTTPException becomes its status code and {"detail": ...}; any
\* other exception goes to global_exception_handler, whose return value is
\* sent if it is a Response, and otherwise cannot be sent, so that the server
\* answers with its own plain-text 500
Dispatch(request, r) ==
    IF ~r.raised
    THEN [resp |-> Response(200, "application/json", r.body, r.elapsed_ms),
          logs |-> r.logs]
    ELSE IF r.exc.cls = "HTTPException"
    THEN [resp |-> Response(r.exc.status_code, "application/json",
                            [EmptyBody EXCEPT !.keys = {"detail"},
                                              !.detail = r.exc.detail],
                            r.elapsed_ms),
          logs |-> r.logs]
    ELSE LET h == global_exception_handler(request, r.exc)
         IN  [resp |-> IF h.returned.type = "Response"
                       THEN Response(500, "application/json",
                                     [EmptyBody EXCEPT !.keys = h.returned.keys,
                                                       !.detail = h.returned.detail],
                                     r.elapsed_ms)
                       ELSE Response(500, "text/plain", EmptyBody, r.elapsed_ms),
              logs |-> r.logs \o h.logs]

\* the handler of request has ended as r: the response goes to the client
Respond(request, inputs, r) ==
    /\ pc = "serving"
    /\ served < MaxRequests
    /\ served' = served + 1
    /\ req' = request
    /\ given' = inputs
    /\ LET d == Dispatch(request, r)
       IN  /\ resp' = d.resp
           /\ log_calls' = d.logs
    /\ outbound' = r.outbound
    /\ metrics' = r.metrics
    /\ health_ts' = IF request.path = "/health" /\ ~r.raised
                    THEN IF health_ts = <<>>
                         THEN <<r.body.timestamp>>
                         ELSE <<health_ts[Len(health_ts)], r.body.timestamp>>
                    ELSE health_ts
    /\ UNCHANGED startup_vars

\* one request served from its arrival to its response, no other request
\* being in flight
Serve(request, inputs, r) == Respond(request, inputs, r) /\ UNCHANGED loop_vars

\* a handler that slept returns with the wall clock further on
Slept == clock < MaxClock /\ clock' \in (clock + 1)..MaxClock

----------------------------------------------------------------------------
(* Inputs *)

\* error_type as the client sends it: not at all, the three documented
\* values, an unknown one, the empty string
ErrorTypeQueries == {Absent, "runtime", "http", "zero_division", "bogus", ""}

\* draws of random.uniform(10, 500), in thousandths of a millisecond
ProcessingTimes == {10000, 10004, 255555, 499996, 500000}

\* the choices of random.choice([-1, 1, 2])
UserChanges == {-1, 1, 2}

\* draws of random.uniform(1, 3), in milliseconds
Durations == {1000, 1004, 1125, 1996, 2995, 3000}

\* exceptions other than HTTPException that a fault outside the handlers'
\* own try blocks can raise while a request is handled
UnexpectedFaults == {Exc("RuntimeError", 0, <<"unexpected">>),
                     Exc("MemoryError", 0, <<>>)}

----------------------------------------------------------------------------
(* Requests *)

GetRoot == Serve(Request("/", Absent), NoInputs, root(metrics)) /\ UNCHANGED clock

GetHealth ==
    Serve(Request("/health", Absent), NoInputs, health(metrics, clock)) /\ UNCHANGED clock

GetInfo ==
    Serve(Request("/demo/info", Absent), NoInputs, demo_info_log(metrics)) /\ UNCHANGED clock

GetWarning ==
    Serve(Request("/demo/warning", Absent), NoInputs, demo_warning_log(metrics))
    /\ UNCHANGED clock

GetError ==
    Serve(Request("/demo/error", Absent), NoInputs, demo_error_log(metrics)) /\ UNCHANGED clock

GetException ==
    \E q \in ErrorTypeQueries :
        Serve(Request("/demo/exception", q), NoInputs, demo_exception(metrics, q))
        /\ UNCHANGED clock

GetMetrics ==
    \E t \in ProcessingTimes, u \in UserChanges :
        Serve(Request("/demo/metrics", Absent), Given("", NoDownstream, t),
              demo_metrics(metrics, t, u))
        /\ UNCHANGED clock

GetTrace ==
    \E o \in 0..MaxOverrun :
        Serve(Request("/demo/trace", Absent), NoInputs, demo_custom_trace(metrics, o))
        /\ Slept

GetDependency ==
    \E d \in Downstream :
        Serve(Request("/demo/dependency", Absent), Given("", d, -1),
              demo_dependency_tracking(metrics, d))
        /\ UNCHANGED clock

GetSlow ==
    \E t \in Durations, o \in 0..MaxOverrun :
        Serve(Request("/demo/slow", Absent), Given("", NoDownstream, t),
              demo_slow_operation(metrics, t, o))
        /\ Slept

GetAll ==
    \E d \in Downstream, o \in 0..MaxOverrun :
        Serve(Request("/demo/all", Absent), Given("", d, -1),
              demo_all_telemetry(metrics, d, o))
        /\ Slept

\* GET of a path the client scripts use and app/main.py does not register
GetHttpError ==
    \E p \in DOMAIN HttpErrorPaths :
        Serve(Request(p, Absent), NoInputs, NoRoute(metrics)) /\ UNCHANGED clock

\* a request during which an exception other than HTTPException escapes the
\* handler
HandlerFault ==
    \E p \in Routes, e \in UnexpectedFaults :
        Serve(Request(p, Absent), Given(e.cls, NoDownstream, -1),
              Raised(e, <<>>, metrics, 0, 0))
        /\ UNCHANGED clock

----------------------------------------------------------------------------
(* The wall clock: it advances, and it can be set back (time.time() is not *)
(* monotonic)                                                              *)

Tick ==
    /\ clock < MaxClock
    /\ clock' = clock + 1
    /\ UNCHANGED <<startup_vars, request_vars, loop_vars>>

ClockSetBack ==
    /\ \E c \in 0..MaxClock : c < clock /\ clock' = c
    /\ UNCHANGED <<startup_vars, request_vars, loop_vars>>

Next ==
    \/ LoadSettings
    \/ SetupTelemetry
    \/ CreateInstruments
    \/ GetRoot
    \/ GetHealth
    \/ GetInfo
    \/ GetWarning
    \/ GetError
    \/ GetException
    \/ GetMetrics
    \/ GetTrace
    \/ GetDependency
    \/ GetSlow
    \/ GetAll
    \/ GetHttpError
    \/ HandlerFault
    \/ Tick
    \/ ClockSetBack

Spec == Init /\ [][Next]_vars

----------------------------------------------------------------------------
(* The event loop.  The server runs every async def handler on the one     *)
(* thread of its event loop; the batch span and log record processors      *)
(* queue what the handlers end or emit and a worker thread exports it.     *)
(* A handler's effects are applied when it ends: nothing else runs on the  *)
(* thread between two statements of a handler that does not await.         *)

\* capacity of the batch processors' queue
MaxQueue == 2

\* the paths whose handlers the event-loop view follows
LoopPaths == {"/demo/error", "/demo/trace", "/demo/all"}

\* the sleeps a handler makes, in order of the calls
SleepCalls(path) ==
    CASE path = "/demo/trace" ->
             <<[call |-> "time.sleep", ms |-> 100], [call |-> "time.sleep", ms |-> 50]>>
      [] path = "/demo/all" -> <<[call |-> "time.sleep", ms |-> 100]>>
      [] OTHER -> <<>>

\* whether the loop's thread stays with the handler during a call: an
\* awaited asyncio.sleep suspends the coroutine and returns the thread to
\* the loop, any plain call such as time.sleep keeps it until it returns
HoldsThread(call) == call # "await asyncio.sleep"

\* a request accepted by the server, its handler not yet started
Task(path) == [path |-> path, at |-> "ready", left |-> 0]

\* tasks without the i-th
Remove(seq, i) == [j \in 1..(Len(seq) - 1) |-> IF j < i THEN seq[j] ELSE seq[j + 1]]

\* what a handler that has ended as r hands to the batch processors: the
\* request's server span and one record per logger call
Emitted(request, r) ==
    (IF "BatchSpanProcessor" \in otel.constructed THEN 1 ELSE 0)
    + (IF "LoggingHandler" \in otel.root_handlers
       THEN Len(Dispatch(request, r).logs) ELSE 0)

\* a processor whose on_end waits for room in the queue
EmitWhenRoom(ex, n) ==
    IF ex.queue + n > MaxQueue
    THEN [export |-> ex, waits |-> TRUE]
    ELSE [export |-> [ex EXCEPT !.queue = @ + n], waits |-> FALSE]

\* BatchSpanProcessor.on_end / BatchLogRecordProcessor.emit for n items: they
\* are put on the queue, which drops what exceeds its capacity; the caller
\* is not made to wait
Emit(ex, n) ==
    [export |-> [ex EXCEPT !.queue = IF @ + n > MaxQueue THEN MaxQueue ELSE @ + n],
     waits |-> FALSE]

\* the ways the handler of path can end, with the inputs that lead there
HandlerEnds(path) ==
    CASE path = "/demo/error" ->
             {[inputs |-> NoInputs, r |-> demo_error_log(metrics)]}
      [] path = "/demo/trace" ->
             {[inputs |-> NoInputs, r |-> demo_custom_trace(metrics, o)] :
                  o \in 0..MaxOverrun}
      [] path = "/demo/all" ->
             {[inputs |-> Given("", d, -1), r |-> demo_all_telemetry(metrics, d, o)] :
                  d \in Downstream, o \in 0..MaxOverrun}

\* the server accepts a connection and queues the request for the loop
Arrive ==
    /\ pc = "serving"
    /\ served + Len(tasks) < MaxRequests
    /\ \E p \in LoopPaths : tasks' = Append(tasks, Task(p))
    /\ UNCHANGED <<startup_vars, clock, request_vars, thread, export>>

\* the handler of the i-th task runs to its end: its spans and log records
\* go to the batch processors and the response to the client
Complete(i) ==
    \E h \in HandlerEnds(tasks[i].path) :
        LET request == Request(tasks[i].path, Absent)
            e == Emit(export, Emitted(request, h.r))
        IN  /\ ~e.waits
            /\ Respond(request, h.inputs, h.r)
            /\ export' = e.export
            /\ tasks' = Remove(tasks, i)
            /\ thread' = "loop"
            /\ UNCHANGED clock

\* the loop starts the handler of the oldest task that is ready; the handler
\* runs up to its first sleep, or to its end if it has none
Begin(i) ==
    /\ pc = "serving"
    /\ thread = "loop"
    /\ tasks[i].at = "ready"
    /\ \A j \in 1..(i - 1) : tasks[j].at # "ready"
    /\ LET calls == SleepCalls(tasks[i].path)
       IN  IF calls = <<>>
           THEN Complete(i)
           ELSE /\ tasks' = [tasks EXCEPT ![i].at = "sleeping",
                                           ![i].left = Len(calls)]
                /\ thread' = IF HoldsThread(calls[1].call) THEN "handler" ELSE "loop"
                /\ UNCHANGED <<startup_vars, clock, request_vars, export>>

\* a sleep of the i-th task's handler returns: the handler goes on to its
\* next sleep, or to its end
Wake(i) ==
    /\ tasks[i].at = "sleeping"
    /\ LET calls == SleepCalls(tasks[i].path)
           cur == calls[Len(calls) - tasks[i].left + 1]
       IN  /\ thread = IF HoldsThread(cur.call) THEN "handler" ELSE "loop"
           /\ IF tasks[i].left > 1
              THEN /\ tasks' = [tasks EXCEPT ![i].left = @ - 1]
                   /\ thread' = IF HoldsThread(calls[Len(calls) - tasks[i].left + 2].call)
                                THEN "handler" ELSE "loop"
                   /\ UNCHANGED <<startup_vars, clock, request_vars, export>>
              ELSE Complete(i)

BeginNext == \E i \in 1..Len(tasks) : Begin(i)

WakeNext == \E i \in 1..Len(tasks) : Wake(i)

\* the processors' worker thread takes the queued batch to the exporter
ExportBatch ==
    /\ export.queue > 0
    /\ ~export.in_flight
    /\ export' = [queue |-> 0, in_flight |-> TRUE]
    /\ UNCHANGED <<startup_vars, clock, request_vars, tasks, thread>>

\* the backend answers the export call, or the call times out
BackendAnswers ==
    /\ export.in_flight
    /\ export' = [export EXCEPT !.in_flight = FALSE]
    /\ UNCHANGED <<startup_vars, clock, request_vars, tasks, thread>>

LoopNext ==
    \/ LoadSettings
    \/ SetupTelemetry
    \/ CreateInstruments
    \/ Arrive
    \/ BeginNext
    \/ WakeNext
    \/ ExportBatch
    \/ BackendAnswers

\* the loop keeps running what is ready and a sleep returns; nothing is
\* assumed of the export worker or of the backend
LoopSpec == Init /\ [][LoopNext]_vars /\ WF_vars(BeginNext) /\ WF_vars(WakeNext)

----------------------------------------------------------------------------
(* Properties *)

\* no connection string was configured (unset or empty)
Unconfigured == ~Truthy(Settings(env.conn).applicationinsights_connection_string)

\* setup_telemetry has returned
SetupReturned == pc \in {"telemetry_done", "serving"}

\* a request has been served whose handling no unexpected fault disturbed
Handled(path) == served > 0 /\ req.path = path /\ given.fault = ""

\* the status codes section 6 of the specification documents for a request
DocumentedStatuses(request) ==
    IF request.path = "/demo/exception"
    THEN IF request.error_type = "http" THEN {503} ELSE {500}
    ELSE IF request.path = "/demo/dependency" THEN {200, 502}
    ELSE {200}

\* C1: without a connection string the startup does not fail, and every
\* request to a registered endpoint that no unexpected fault disturbs gets a
\* status code documented for it, the one it gets with a connection string
C1_UnconfiguredServes ==
    /\ Unconfigured => pc # "failed"
    /\ \A p \in Routes :
          Handled(p) => resp.status \in DocumentedStatuses(req)

\* C1 witness: without a connection string /demo/all, which uses the tracer
\* and all four instruments, has answered 200
C1_Witness ==
    Unconfigured /\ Handled("/demo/all") /\ resp.status = 200 /\ ~tracer.recording

\* C2: with no connection string setup_telemetry has emitted one warning and
\* changed nothing else, the root logger's handlers included
C2_Original ==
    (Unconfigured /\ SetupReturned) =>
        /\ otel.warnings = 1
        /\ otel = [FreshRegistry(env.root_handlers) EXCEPT !.warnings = 1]

\* C2 as amended: with no connection string setup_telemetry has emitted one
\* warning; no provider is registered, nothing is constructed, the root level
\* is unchanged, nothing is instrumented, and the root logger has no
\* LoggingHandler: it has the handlers it had, or, when it had none, the
\* StreamHandler that logging.warning installs
C2_NoConnectionStringFrame ==
    (Unconfigured /\ SetupReturned) =>
        /\ otel.warnings = 1
        /\ otel.tracer_provider = NoProvider
        /\ otel.meter_provider = NoProvider
        /\ otel.logger_provider = NoProvider
        /\ otel.constructed = {}
        /\ "LoggingHandler" \notin otel.root_handlers
        /\ otel.root_handlers =
               IF env.root_handlers = {} THEN {"StreamHandler"}
               ELSE env.root_handlers
        /\ otel.root_level = "WARNING"
        /\ otel.instrumented = {}
        /\ otel.app_main_handlers = {}
        /\ ~otel.live_metrics

\* C2 witness: setup_telemetry has returned without a connection string, on
\* a root logger that had no handler
C2_Witness ==
    /\ Unconfigured /\ SetupReturned
    /\ env.root_handlers = {}
    /\ otel.warnings = 1
    /\ otel.root_handlers = {"StreamHandler"}

\* whether piece is one of the pieces of a detail
Contains(detail, piece) == \E i \in 1..Len(detail) : detail[i] = piece

\* C3: the status of /demo/exception follows from error_type alone: http
\* gives 503 with the detail "Service temporarily unavailable"; runtime,
\* zero_division, any other value and no value at all give 500; never 2xx
C3_ExceptionStatus ==
    Handled("/demo/exception") =>
        /\ req.error_type = "http" =>
              /\ resp.status = 503
              /\ Contains(resp.body.detail, "Service temporarily unavailable")
        /\ req.error_type # "http" => resp.status = 500
        /\ resp.status \notin 200..299

\* C3 witness: error_type=http has been answered 503, after another request
C3_Witness ==
    /\ Handled("/demo/exception")
    /\ req.error_type = "http"
    /\ resp.status = 503
    /\ served > 1

\* C4: /demo/all answers 200 whatever the outbound call did; its list has
\* one entry per step, the outbound call's and the caught exception's among
\* them, the steps after the outbound call have run, and total_types is the
\* length of the list
C4_AllAlways200 ==
    Handled("/demo/all") =>
        LET list == resp.body.telemetry_generated
        IN  /\ resp.status = 200
            /\ Len(list) > 0
            /\ resp.body.total_types = Len(list)
            /\ Len(list) = 7
            /\ list[5] = IF given.downstream.exc # ""
                         THEN "x Dependency tracking (failed)"
                         ELSE IF given.downstream.status_code = 200
                         THEN "v Dependency tracking (status: 200)"
                         ELSE "v Dependency tracking (status: 500)"
            /\ list[6] = "v ERROR log"
            /\ list[7] = "v Exception (caught and logged)"
            /\ \E i \in 1..Len(log_calls) : log_calls[i].exc_info
            /\ log_calls[Len(log_calls)] = LogCall("INFO", FALSE)

\* C4 witness: /demo/all has answered 200 after its outbound call failed
C4_Witness ==
    /\ Handled("/demo/all")
    /\ given.downstream.exc = "Timeout"
    /\ resp.status = 200
    /\ resp.body.telemetry_generated[5] = "x Dependency tracking (failed)"

\* C5: /demo/dependency makes one outbound attempt; a failed attempt (an
\* exception, or a body that does not decode) gives 502, a successful one
\* gives 200 with the downstream payload
C5_DependencyOnce ==
    Handled("/demo/dependency") =>
        LET d == given.downstream
        IN  /\ outbound = 1
            /\ resp.status \in {200, 502}
            /\ (d.exc # "" \/ ~d.decodable) => resp.status = 502
            /\ (d.exc = "" /\ d.decodable) =>
                   /\ resp.status = 200
                   /\ resp.body.data = d.payload
                   /\ resp.body.status_code = d.status_code

\* C5 witness: a response that did not decode has been answered 502 after
\* one attempt
C5_Witness ==
    /\ Handled("/demo/dependency")
    /\ given.downstream.exc = ""
    /\ ~given.downstream.decodable
    /\ resp.status = 502
    /\ outbound = 1

\* C6: an exception other than HTTPException that escapes a handler is
\* logged once, with the request's path and method, and the client receives
\* a 500 whose JSON body has the keys error, detail and path
C6_GlobalHandlerJsonBody ==
    (served > 0 /\ given.fault # "") =>
        /\ Len(log_calls) = 1
        /\ log_calls[1].exc_info
        /\ log_calls[1].path = req.path
        /\ log_calls[1].method = req.method
        /\ resp.status = 500
        /\ resp.content_type = "application/json"
        /\ resp.body.keys = {"error", "detail", "path"}

\* a connection string the exporters accept was configured
Configured == ValidConnectionString(Settings(env.conn).applicationinsights_connection_string)

\* C7: with a connection string, once setup_telemetry has returned, the
\* three providers it constructed, all on the one resource, are the global
\* tracer, meter and logger providers
C7_ProvidersAreGlobalDefaults ==
    (Configured /\ SetupReturned) =>
        /\ otel.tracer_provider = AppTracerProvider
        /\ otel.meter_provider = AppMeterProvider
        /\ otel.logger_provider = AppLoggerProvider
        /\ otel.tracer_provider.resource = otel.meter_provider.resource
        /\ otel.meter_provider.resource = otel.logger_provider.resource

\* C8: GET /demo/http-errors/<code> answers <code> for each of the codes the
\* client scripts request, and GET / and GET /health answer 200
C8_HttpErrorRoutes ==
    /\ \A p \in DOMAIN HttpErrorPaths :
          Handled(p) => resp.status = HttpErrorPaths[p]
    /\ Handled("/") => resp.status = 200
    /\ Handled("/health") => resp.status = 200

\* C9: every /health response is 200 with status "healthy", and of two
\* successive /health responses the later has the greater timestamp
C9_Original ==
    /\ Handled("/health") => (resp.status = 200 /\ resp.body.status = "healthy")
    /\ Len(health_ts) = 2 => health_ts[2] > health_ts[1]

\* a step that serves a GET /health no unexpected fault disturbs
HealthStep == served' = served + 1 /\ req'.path = "/health" /\ given'.fault = ""

\* C9 as amended: every /health response, whatever came before it, is 200
\* with status "healthy" and carries the reading of the wall clock at the
\* call, so that two successive timestamps differ as the clock's readings do
C9_HealthReadsWallClock ==
    [][HealthStep =>
          /\ resp'.status = 200
          /\ resp'.body.status = "healthy"
          /\ resp'.body.timestamp = clock
          /\ health_ts'[Len(health_ts')] = clock
          /\ health_ts # <<>> => health_ts'[1] = health_ts[Len(health_ts)]]_vars

\* C9 witness: two successive /health responses of which the later has no
\* greater timestamp than the earlier
C9_Witness ==
    /\ Handled("/health")
    /\ resp.status = 200
    /\ Len(health_ts) = 2
    /\ health_ts[2] <= health_ts[1]

\* C10: duration_seconds of /demo/slow lies in [1, 3] (here in hundredths
\* of a second) and the call took at least that long
C10_Original ==
    Handled("/demo/slow") =>
        /\ resp.body.duration_seconds \in 100..300
        /\ resp.elapsed_ms >= resp.body.duration_seconds * 10

\* C10 as amended: duration_seconds lies in [1, 3] and is within half a
\* hundredth of the drawn duration, and the call took at least the drawn
\* duration, that is at least duration_seconds less 0.005 s
C10_SlowDuration ==
    Handled("/demo/slow") =>
        LET returned_ms == resp.body.duration_seconds * 10
        IN  /\ resp.status = 200
            /\ resp.body.duration_seconds \in 100..300
            /\ returned_ms - given.draw \in -5..5
            /\ resp.elapsed_ms >= given.draw
            /\ resp.elapsed_ms >= returned_ms - 5

\* C10 witness: a /demo/slow response whose duration_seconds, rounded up,
\* exceeds the time the call took
C10_Witness ==
    /\ Handled("/demo/slow")
    /\ resp.body.duration_seconds \in 100..300
    /\ resp.elapsed_ms < resp.body.duration_seconds * 10

\* a step that serves a request for path that no unexpected fault disturbs
HandledStep(path) ==
    served' = served + 1 /\ req'.path = path /\ given'.fault = ""

\* C11: processing_time_ms of /demo/metrics lies in [10, 500] (here in
\* hundredths of a ms), active_users_change is -1, 1 or 2, the gauge moves by
\* the returned change and the histogram records the returned
\* processing_time_ms
C11_Original ==
    [][HandledStep("/demo/metrics") =>
          /\ resp'.body.processing_time_ms \in 1000..50000
          /\ resp'.body.active_users_change \in {-1, 1, 2}
          /\ metrics'.active_users =
                 metrics.active_users + resp'.body.active_users_change
          /\ metrics'.histogram_last = resp'.body.processing_time_ms * 10]_vars

\* C11 as amended: processing_time_ms lies in [10, 500] and is within half a
\* hundredth of the drawn time, active_users_change is -1, 1 or 2; with
\* recording instruments the gauge moves by the returned change and the
\* histogram records the drawn time, one value per request; with the no-op
\* instruments only the request is answered and nothing is recorded
C11_MetricsValues ==
    [][HandledStep("/demo/metrics") =>
          /\ resp'.status = 200
          /\ resp'.body.processing_time_ms \in 1000..50000
          /\ resp'.body.processing_time_ms * 10 - given'.draw \in -5..5
          /\ resp'.body.active_users_change \in {-1, 1, 2}
          /\ IF meter.recording
             THEN /\ metrics'.active_users =
                         metrics.active_users + resp'.body.active_users_change
                  /\ metrics'.histogram_last = given'.draw
                  /\ metrics'.histogram_count = metrics.histogram_count + 1
             ELSE metrics' = metrics]_vars

\* C11 witness: with recording instruments /demo/metrics has recorded a
\* drawn time that differs from the processing_time_ms it returned
C11_Witness ==
    /\ Handled("/demo/metrics")
    /\ meter.recording
    /\ metrics.histogram_last = given.draw
    /\ metrics.histogram_last # resp.body.processing_time_ms * 10
    /\ metrics.active_users # 0

\* the positions of the startup code, in the order they follow each other
StartupSteps ==
    {<<"start", "settings_loaded">>, <<"settings_loaded", "telemetry_done">>,
     <<"settings_loaded", "failed">>, <<"telemetry_done", "serving">>}

\* C14: startup goes settings, setup_telemetry (once), tracer, meter and
\* instruments, serving, in that order; no request is served before it has
\* finished, and settings, registry, tracer, meter and instruments are not
\* replaced afterwards
C14_StartupOrder ==
    /\ [](/\ served > 0 => pc = "serving"
          /\ pc \in {"start", "settings_loaded"} =>
                 otel = FreshRegistry(env.root_handlers)
          /\ pc # "start" => settings = Settings(env.conn)
          /\ SetupReturned => otel.warnings + otel.info_logs = 1
          /\ pc # "serving" => instruments = NoInstruments
          /\ pc = "serving" =>
                 /\ tracer = get_tracer(otel)
                 /\ meter = get_meter(otel)
                 /\ instruments = create_instruments(meter))
    /\ [][/\ pc' # pc => <<pc, pc'>> \in StartupSteps
          /\ settings' # settings => pc = "start"
          /\ otel' # otel => pc = "settings_loaded"
          /\ (tracer' # tracer \/ meter' # meter \/ instruments' # instruments)
                 => pc = "telemetry_done"
          /\ served' # served => (pc = "serving" /\ pc' = "serving")]_vars

\* C14 witness: with a connection string two requests have been served after
\* the one run of setup_telemetry, by recording instruments
C14_Witness ==
    /\ Configured
    /\ pc = "serving"
    /\ served > 1
    /\ otel.info_logs = 1
    /\ instruments["demo.errors.total"].recording

\* what one request for path adds to the error counter, the request counter
\* and, given the change it returned, the active-user gauge
ErrorCountOf(path) ==
    IF path \in {"/demo/error", "/demo/exception", "/demo/all"} THEN 1 ELSE 0

RequestCountOf(path) == IF path \in {"/demo/metrics", "/demo/all"} THEN 1 ELSE 0

GaugeChangeOf(path, change) ==
    IF path = "/demo/metrics" THEN change ELSE IF path = "/demo/all" THEN 1 ELSE 0

\* C15: every request to /demo/error, /demo/exception and /demo/all adds one
\* to the error counter, every request to /demo/metrics and /demo/all adds
\* one to the request counter, and the other endpoints leave both counters
\* and the gauge as they are; so each total is the number of such requests
C15_Original ==
    [][\A p \in Routes :
          HandledStep(p) =>
              /\ metrics'.error_total = metrics.error_total + ErrorCountOf(p)
              /\ metrics'.request_total = metrics.request_total + RequestCountOf(p)
              /\ p \in {"/", "/health", "/demo/info", "/demo/warning",
                        "/demo/trace", "/demo/dependency"} =>
                     metrics'.active_users = metrics.active_users]_vars

\* C15 as amended: with recording instruments the totals count the requests
\* as C15 says and the gauge moves only on /demo/metrics and /demo/all; with
\* the no-op instruments no request changes anything recorded
C15_CounterTotals ==
    [][\A p \in Routes :
          HandledStep(p) =>
              IF meter.recording
              THEN /\ metrics'.error_total = metrics.error_total + ErrorCountOf(p)
                   /\ metrics'.request_total =
                          metrics.request_total + RequestCountOf(p)
                   /\ metrics'.active_users = metrics.active_users
                          + GaugeChangeOf(p, resp'.body.active_users_change)
              ELSE metrics' = metrics]_vars

\* C15 witness: with recording instruments two requests have been counted
\* as errors, the later one /demo/exception?error_type=http
C15_Witness ==
    /\ meter.recording
    /\ Handled("/demo/exception")
    /\ req.error_type = "http"
    /\ metrics.error_total = 2
    /\ metrics.request_total = 1

\* C16: a /demo/exception request answered 500 has made one logger call, the
\* handler's own logger.exception; error_type=http is answered 503 with no
\* exception logged; the process-wide exception handler has logged nothing
\* and the answer is the HTTPException's {"detail": ...}
C16_ExceptionLoggedOnce ==
    Handled("/demo/exception") =>
        /\ resp.status = 500 => log_calls = <<LogCall("ERROR", TRUE)>>
        /\ req.error_type = "http" =>
               /\ resp.status = 503
               /\ \A i \in 1..Len(log_calls) : ~log_calls[i].exc_info
        /\ resp.status \in {500, 503}
        /\ \A i \in 1..Len(log_calls) : log_calls[i].path = ""
        /\ resp.content_type = "application/json"
        /\ resp.body.keys = {"detail"}

\* C16 witness: error_type=zero_division has been answered 500 after one
\* logger.exception call
C16_Witness ==
    /\ Handled("/demo/exception")
    /\ req.error_type = "zero_division"
    /\ resp.status = 500
    /\ Len(log_calls) = 1
    /\ log_calls[1].exc_info

\* C12: while the handler of /demo/trace or /demo/all sleeps, the event
\* loop's thread is with the loop, so a request that arrives meanwhile can
\* be handled before the sleeping one completes
C12_SleepYields ==
    \A i \in 1..Len(tasks) :
        (tasks[i].at = "sleeping" /\ tasks[i].path \in {"/demo/trace", "/demo/all"})
            => thread = "loop"

\* C13: every accepted request is answered, whatever the export worker and
\* the backend do: the requests in flight always drain, and a handler that
\* holds the thread in a sleep is never one that waits for the queue
C13_NeverWaitsForExport ==
    /\ (tasks # <<>>) ~> (tasks = <<>>)
    /\ [](thread = "handler" => \E i \in 1..Len(tasks) : tasks[i].at = "sleeping")

\* C13 witness: a request has been answered while the queue was full and the
\* export worker was inside an export call the backend has not answered
C13_Witness ==
    /\ served > 1
    /\ export.queue = MaxQueue
    /\ export.in_flight
    /\ tasks = <<>>

====
